---- MODULE Spec2Model ----
(***************************************************************************)
(* Two-site finite-system DMRG (mpopt/optimiser/dmrg.py): the sweep        *)
(* engine DMRG and the implicit operator EffectiveHamiltonian.             *)
(*                                                                         *)
(* Tensors are abstracted to what the control flow and the bookkeeping     *)
(* depend on: their shapes and an identity (`id`) that is fresh for every  *)
(* tensor an update produces.  An environment records, in fold order, the  *)
(* identities of the site tensors, singular-value vectors and operator     *)
(* tensors contracted into it.  A singular-value vector w/sqrt(n2) is kept *)
(* as its integer weights w and the square n2 of its normalisation.        *)
(***************************************************************************)
EXTENDS Integers, Sequences, FiniteSets, TLC

VARIABLES
    heap,                \* the MPS objects: "caller" (the argument), "copy" (the deepcopy)
    mps,                 \* self.mps: the name of the heap object the optimiser works on
    mpo,                 \* the caller's MPO list, aliased by self.mpo
    input,               \* the constructor's arguments as the caller passed them (history)
    left_environments,   \* self.left_environments
    right_environments,  \* self.right_environments
    chi_max, cut, copy,  \* the constructor's arguments chi_max, cut and copy
    callBudget,          \* number of calls the caller makes on the optimiser
    pc,                  \* position of the control flow
    idx,                 \* position of the running for loop of sweep
    inRun,               \* whether the running sweep was called by run
    num_iter,            \* argument of the running run
    itersDone,           \* iterations of run's loop completed
    raised,              \* the exception the last call surfaced to the caller, or "none"
    clock,               \* number of tensor identities handed out so far
    calls,               \* number of calls of run/sweep/update_bond the caller has made
    last,                \* the last update_bond execution (history)
    ret,                 \* the call that returned normally last, "none" once a call starts (history)
    passDone,            \* whether a left-to-right pass of a sweep has completed (history)
    sweepLog,            \* bonds passed to update_bond by the running / last sweep (history)
    runUpdates,          \* update_bond executions of the running / last run (history)
    runSweeps,           \* sweep calls of the running / last run (history)
    folds,               \* calls of update_left/right_environment: <<ctor, update_bond>> (history)
    copies,              \* number of deepcopies made (history)
    ham                  \* EffectiveHamiltonian scenario: its own state

vars == <<heap, mps, mpo, input, left_environments, right_environments, chi_max, cut,
          copy, callBudget, pc, idx, inRun, num_iter, itersDone, raised, clock, calls,
          last, ret, passDone, sweepLog, runUpdates, runSweeps, folds, copies, ham>>

-----------------------------------------------------------------------------
(* Bounds of the model. *)

MaxSites == 3      \* chain lengths 1..MaxSites under Spec
MaxSweepSites == 4 \* chain lengths 1..MaxSweepSites under SpecSweep
MaxIter == 2       \* run(num_iter) with num_iter in 0..MaxIter
MaxCalls == 2      \* calls the caller makes on one optimiser
MaxDim == 3        \* virtual bond dimensions in the EffectiveHamiltonian scenario

PhysDims == {2}             \* physical dimension of every site
ChiMaxs == {1, 2}           \* chi_max
Weights == {0, 1, 2}        \* integer weights of the singular values an SVD returns
MpoBonds == {2}             \* virtual bond dimension of the MPO
CutSqs == {<<0, 1>>, <<1, 2>>}  \* cut squared, as <<numerator, denominator>>: cut = 0, 1/sqrt(2)

None == [tag |-> "None"]

Min(a, b) == IF a < b THEN a ELSE b

RECURSIVE SumSq(_)
SumSq(w) == IF w = <<>> THEN 0 ELSE w[1] * w[1] + SumSq(Tail(w))

Range(f) == {f[x] : x \in DOMAIN f}

\* The weights w in lowest terms: w/sqrt(SumSq(w)) is the same vector.
Reduced(w) ==
    LET divs == {d \in Weights \ {0} : \A k \in DOMAIN w : w[k] % d = 0}
        g == CHOOSE d \in divs : \A e \in divs : e <= d
    IN  [k \in DOMAIN w |-> w[k] \div g]

\* Python list indexing: a negative index counts from the end.
PyIdx(k, n) == IF k < 0 THEN k + n ELSE k

-----------------------------------------------------------------------------
(* EffectiveHamiltonian *)

\* Faulty variant: a constructor that compares the virtual dimensions and raises.
EffectiveHamiltonian_Checked(left_environment, mpo_1, mpo_2, right_environment) ==
    IF left_environment = None \/ right_environment = None
    THEN [exc |-> "AttributeError"]
    ELSE IF \/ left_environment.op # mpo_1.vl
            \/ mpo_1.vr # mpo_2.vl
            \/ mpo_2.vr # right_environment.op
    THEN [exc |-> "ValueError"]
    ELSE [exc |-> "none",
          left_environment |-> left_environment,
          right_environment |-> right_environment,
          mpo_1 |-> mpo_1,
          mpo_2 |-> mpo_2,
          x_shape |-> <<left_environment.chi, mpo_1.d, mpo_2.d, right_environment.chi>>,
          shape |-> left_environment.chi * mpo_1.d * mpo_2.d * right_environment.chi]

\* EffectiveHamiltonian.__init__: stores the four tensors and derives x_shape and
\* shape from left_environment.shape[2], right_environment.shape[2] and the
\* operators' shape[3]; nothing else is read or compared.
\* An environment that is None has no shape: AttributeError.
EffectiveHamiltonian(left_environment, mpo_1, mpo_2, right_environment) ==
    IF left_environment = None \/ right_environment = None
    THEN [exc |-> "AttributeError"]
    ELSE LET chi_1 == left_environment.chi
             chi_2 == right_environment.chi
             d_1 == mpo_1.d
             d_2 == mpo_2.d
         IN  [exc |-> "none",
              left_environment |-> left_environment,
              right_environment |-> right_environment,
              mpo_1 |-> mpo_1,
              mpo_2 |-> mpo_2,
              x_shape |-> <<chi_1, d_1, d_2, chi_2>>,
              shape |-> chi_1 * d_1 * d_2 * chi_2]

\* The three index labels the contraction of _matvec shares between the
\* environments and the operators: n (L, mpo_1), o (mpo_1, mpo_2), q (mpo_2, R).
SharedLabels(H) ==
    {<<H.left_environment.op, H.mpo_1.vl>>,
     <<H.mpo_1.vr, H.mpo_2.vl>>,
     <<H.mpo_2.vr, H.right_environment.op>>}

\* _matvec: the contraction raises ValueError when a shared label has two sizes.
\* Where one of the two sizes is 1 the contraction library may broadcast instead
\* of raising, so both outcomes are possible there.
MatvecOutcomes(H) ==
    LET bad == {p \in SharedLabels(H) : p[1] # p[2]}
        hard == {p \in bad : p[1] # 1 /\ p[2] # 1}
    IN  IF bad = {} THEN {"ok"}
        ELSE IF hard # {} THEN {"ValueError"}
        ELSE {"ok", "ValueError"}

-----------------------------------------------------------------------------
(* The MPS collaborator and the tensor-split collaborator *)

\* ExplicitMPS.single_site_left_iso(i): diag(singular_values[i]) . tensors[i]
single_site_left_iso(m, i) ==
    [tid |-> m.tensors[i].id, svid |-> m.singular_values[i].id,
     dl |-> m.tensors[i].dl, d |-> m.tensors[i].d, dr |-> m.tensors[i].dr]

\* ExplicitMPS.single_site_right_iso(i): tensors[i] . diag(singular_values[i+1])
single_site_right_iso(m, i) ==
    [tid |-> m.tensors[i].id, svid |-> m.singular_values[i + 1].id,
     dl |-> m.tensors[i].dl, d |-> m.tensors[i].d, dr |-> m.tensors[i].dr]

\* The singular values an SVD of a unit two-site tensor can return, as integer
\* weights: non-negative, descending, not all zero.  The values are w[k]/sqrt(SumSq(w)).
RECURSIVE Descending(_, _)
Descending(len, tops) ==
    IF len = 0 THEN {<<>>}
    ELSE UNION {{<<a>> \o s : s \in Descending(len - 1, {b \in tops : b <= a})} : a \in tops}

SvdOutcomes(len) == {w \in Descending(len, Weights) : w[1] > 0}

\* Number of singular values strictly above cut (cut squared = cutsq[1]/cutsq[2]).
AboveCut(raw, cutsq) ==
    Cardinality({k \in DOMAIN raw : raw[k] * raw[k] * cutsq[2] > cutsq[1] * SumSq(raw)})

\* split_two_site_tensor(x, chi_max, cut, renormalise): keeps at most chi_max
\* singular values, none below cut, at least one; with every value below cut it
\* rejects (raises) or clamps to the largest one (onEmpty).  renormalise divides
\* the kept values by their norm.
split_two_site_tensor(raw, chi, cutsq, renormalise, onEmpty) ==
    LET num == Min(chi, AboveCut(raw, cutsq))
        keep == IF num = 0 THEN 1 ELSE num
        kept == SubSeq(raw, 1, keep)
        above == AboveCut(raw, cutsq)
    IN  IF num = 0 /\ onEmpty = "reject"
        THEN [exc |-> "ValueError", w |-> <<>>, n2 |-> 0, above |-> above]
        ELSE IF renormalise
        THEN [exc |-> "none", w |-> Reduced(kept), n2 |-> SumSq(Reduced(kept)),
              above |-> above]
        ELSE [exc |-> "none", w |-> kept, n2 |-> SumSq(raw), above |-> above]

-----------------------------------------------------------------------------
(* DMRG: environments *)

\* update_right_environment(i): folds site i (its right isometry and mpo[i]) into
\* right_environments[i] and stores the result in right_environments[i - 1].
update_right_environment(m, renv, i) ==
    LET right_environment == renv[i]
        right_iso == single_site_right_iso(m, i)
        n == m.nsites
    IN  [renv EXCEPT ![PyIdx(i - 1, n)] =
            [chi |-> right_iso.dl, op |-> mpo[i].vl, side |-> right_environment.side,
             fold |-> Append(right_environment.fold,
                             <<i, right_iso.tid, right_iso.svid, mpo[i].id>>)]]

\* update_left_environment(i): folds site i (its left isometry and mpo[i]) into
\* left_environments[i] and stores the result in left_environments[i + 1].
update_left_environment(m, lenv, i) ==
    LET left_environment == lenv[i]
        left_iso == single_site_left_iso(m, i)
        n == m.nsites
    IN  [lenv EXCEPT ![PyIdx(i + 1, n)] =
            [chi |-> left_iso.dr, op |-> mpo[i].vr, side |-> left_environment.side,
             fold |-> Append(left_environment.fold,
                             <<i, left_iso.tid, left_iso.svid, mpo[i].id>>)]]

\* DMRG.__init__, lines 160-162: for i in reversed(range(1, len(mps))):
\* update_right_environment(i).
RECURSIVE InitRightEnvironments(_, _, _)
InitRightEnvironments(m, renv, i) ==
    IF i < 1 THEN renv
    ELSE InitRightEnvironments(m, update_right_environment(m, renv, i), i - 1)

-----------------------------------------------------------------------------
(* DMRG: update_bond *)

\* eigsh on the effective Hamiltonian: the eigenvector, ArpackNoConvergence, or
\* whatever _matvec raises.
EigshOutcomes(H) == {"ArpackNoConvergence"} \cup MatvecOutcomes(H)

\* Faulty variant: the split asked not to renormalise.
SplitCall_NoRenormalise(raw, onEmpty) ==
    split_two_site_tensor(raw, chi_max, cut, FALSE, onEmpty)

\* update_bond, lines 205-207: the split is asked for chi_max, cut and renormalise=True.
SplitCall(raw, onEmpty) == split_two_site_tensor(raw, chi_max, cut, TRUE, onEmpty)

\* Faulty variant: update_right_environment called with i in place of j.
RefreshEnvironments_WrongSite(m, lenv, renv, i) ==
    [lenv |-> update_left_environment(m, lenv, i),
     renv |-> update_right_environment(m, renv, i)]

\* Faulty variant: the right environment is not refreshed.
RefreshEnvironments_LeftOnly(m, lenv, renv, i) ==
    [lenv |-> update_left_environment(m, lenv, i), renv |-> renv]

\* update_bond, lines 218-219: update_left_environment(i), update_right_environment(j).
RefreshEnvironments(m, lenv, renv, i) ==
    [lenv |-> update_left_environment(m, lenv, i),
     renv |-> update_right_environment(m, renv, i + 1)]

\* Faulty variant: the right environment taken at i in place of j.
ReadEnvironments_AtI(lenv, renv, i) == [L |-> lenv[i], R |-> renv[i]]

\* update_bond, lines 185-190: the environments the effective Hamiltonian is built from.
ReadEnvironments(lenv, renv, i) == [L |-> lenv[i], R |-> renv[i + 1]]

\* update_bond, lines 209-219: put the split tensors back into the MPS and refresh
\* the two neighbouring environments.  t is the identity of the tensors written.
PutBack(m, lenv, renv, i, H, sp, t) ==
    LET j == i + 1
        sv_i == m.singular_values[i]
        sv_j1 == m.singular_values[j + 1]
        fail(exc, mm) == [exc |-> exc, m |-> mm, lenv |-> lenv, renv |-> renv, folds |-> 0,
                          above |-> sp.above]
        m1 == [m EXCEPT !.tensors[i] =
                  [id |-> t, dl |-> Len(sv_i.w), d |-> H.x_shape[2], dr |-> Len(sp.w)]]
        m2 == [m1 EXCEPT !.tensors[j] =
                  [id |-> t, dl |-> Len(sp.w), d |-> H.x_shape[3], dr |-> Len(sv_j1.w)]]
        m3 == [m2 EXCEPT !.singular_values[j] = [id |-> t, w |-> sp.w, n2 |-> sp.n2]]
    IN  IF sp.exc # "none" THEN fail(sp.exc, m)
        ELSE IF 0 \in Range(sv_i.w) THEN fail("LinAlgError", m)
        ELSE IF Len(sv_i.w) # H.x_shape[1] THEN fail("ValueError", m)
        ELSE IF 0 \in Range(sv_j1.w) THEN fail("LinAlgError", m1)
        ELSE IF Len(sv_j1.w) # H.x_shape[4] THEN fail("ValueError", m1)
        ELSE [exc |-> "none", m |-> m3,
              lenv |-> RefreshEnvironments(m3, lenv, renv, i).lenv,
              renv |-> RefreshEnvironments(m3, lenv, renv, i).renv,
              folds |-> 2, above |-> sp.above]

\* update_bond(i): every result the call can have on MPS m and environments lenv,
\* renv: the exception raised (or "none"), and the MPS and environments it leaves.
update_bond(m, lenv, renv, i, t) ==
    LET j == i + 1
        fail(exc) == [exc |-> exc, m |-> m, lenv |-> lenv, renv |-> renv, folds |-> 0,
                      above |-> -1]
        env == ReadEnvironments(lenv, renv, i)
        H == EffectiveHamiltonian(env.L, mpo[i], mpo[j], env.R)
    IN  IF H.exc # "none" THEN {fail(H.exc)}
        ELSE LET len == Min(H.x_shape[1] * H.x_shape[2], H.x_shape[3] * H.x_shape[4])
             IN  {fail(e) : e \in EigshOutcomes(H) \ {"ok"}}
                 \cup
                 (IF "ok" \in EigshOutcomes(H)
                  THEN {PutBack(m, lenv, renv, i, H, SplitCall(raw, onEmpty), t) :
                            raw \in SvdOutcomes(len), onEmpty \in {"reject", "clamp"}}
                  ELSE {})

-----------------------------------------------------------------------------
(* DMRG: construction *)

\* Faulty variant: the lengths compared with > in place of !=.
LengthsDiffer_Greater(n, l) == n > l

\* DMRG.__init__, line 133: len(mps) != len(mpo).
LengthsDiffer(n, l) == n # l

\* Faulty variant: the copy flag ignored, the optimiser always works in place.
WorkingMps_InPlace(h, c) == [heap |-> h, mps |-> "caller", copies |-> 0]

\* DMRG.__init__, lines 139-141: self.mps = mps; if copy: self.mps = deepcopy(mps).
\* The heap after it and the object self.mps names.
WorkingMps(h, c) ==
    IF c THEN [heap |-> [h EXCEPT !["copy"] = h["caller"]], mps |-> "copy", copies |-> 1]
    ELSE [heap |-> h, mps |-> "caller", copies |-> 0]

\* DMRG.__init__(mps, mpo, ..., copy), lines 132-162, on the caller's MPS object
\* h["caller"]: the exception raised (or "none") and the optimiser's fields.
DMRG_init(h, arg_mpo, c) ==
    LET arg_mps == h["caller"]
        n == arg_mps.nsites
        own == WorkingMps(h, c)
        h1 == own.heap
        self_mps == own.mps
        start_bond_dim == arg_mpo[0].vl
        chi == arg_mps.tensors[0].dl
        left_environment == [chi |-> chi, op |-> start_bond_dim, side |-> "left", fold |-> <<>>]
        right_environment == [chi |-> chi, op |-> start_bond_dim, side |-> "right", fold |-> <<>>]
        lenv0 == [[k \in 0..(n - 1) |-> None] EXCEPT ![0] = left_environment]
        renv0 == [[k \in 0..(n - 1) |-> None] EXCEPT ![PyIdx(-1, n)] = right_environment]
    IN  IF LengthsDiffer(n, Cardinality(DOMAIN arg_mpo))
        THEN [exc |-> "ValueError", heap |-> h, mps |-> "none", lenv |-> <<>>,
              renv |-> <<>>, copies |-> 0, folds |-> 0]
        ELSE [exc |-> "none", heap |-> h1, mps |-> self_mps, lenv |-> lenv0,
              renv |-> InitRightEnvironments(h1[self_mps], renv0, n - 1),
              copies |-> own.copies, folds |-> n - 1]

-----------------------------------------------------------------------------
(* DMRG: sweep and run *)

\* sweep, line 171: range(self.mps.nsites - 1), as the sequence of its values.
LeftToRight(n) == [k \in 1..(n - 1) |-> k - 1]

\* Faulty variant: the second loop of sweep without reversed().
RightToLeft_Forward(n) == [k \in 1..(n - 1) |-> k - 1]

\* sweep, line 175: reversed(range(self.mps.nsites - 1)).
RightToLeft(n) == [k \in 1..(n - 1) |-> n - 1 - k]

\* Faulty variant: the loop of sweep catches the exception and goes on with the next bond.
OnRaise_Swallow(exc, next) == next

\* sweep and run hold no try/except: an exception of update_bond leaves every
\* running loop and reaches the caller.  next is where a completed update goes on.
OnRaise(exc, next) == [pc |-> "idle", idx |-> 0, raised |-> exc]

nsites == heap["caller"].nsites

\* One execution of update_bond(i) on the optimiser's state; okpc and okidx are
\* the control position after a completed update.
UpdateStep(i, okpc, okidx, call) ==
    \E r \in update_bond(heap[mps], left_environments, right_environments, i, clock + 1) :
        LET to == IF r.exc = "none"
                  THEN [pc |-> okpc, idx |-> okidx, raised |-> "none"]
                  ELSE OnRaise(r.exc, [pc |-> okpc, idx |-> okidx, raised |-> "none"])
        IN  /\ heap' = [heap EXCEPT ![mps] = r.m]
            /\ left_environments' = r.lenv
            /\ right_environments' = r.renv
            /\ clock' = IF r.m # heap[mps] THEN clock + 1 ELSE clock
            /\ last' = [n |-> 1 - last.n, i |-> i, exc |-> r.exc, call |-> call,
                        read |-> ReadEnvironments(left_environments, right_environments, i),
                        folds |-> r.folds, above |-> r.above,
                        failed |-> last.failed \/ r.exc # "none"]
            /\ ret' = IF r.exc = "none" /\ okpc = "idle" THEN "update_bond" ELSE "none"
            /\ folds' = [folds EXCEPT ![2] = @ + r.folds]
            /\ pc' = to.pc
            /\ idx' = to.idx
            /\ raised' = to.raised
            /\ inRun' = IF to.pc = "idle" THEN FALSE ELSE inRun
            /\ sweepLog' = IF pc \in {"sweep_lr", "sweep_rl"} THEN Append(sweepLog, i)
                           ELSE sweepLog
            /\ runUpdates' = IF inRun THEN runUpdates + 1 ELSE runUpdates
            /\ UNCHANGED <<mps, mpo, input, chi_max, cut, copy, callBudget, num_iter,
                           itersDone, passDone, runSweeps, copies, ham>>

Construct ==
    /\ pc = "new"
    /\ LET r == DMRG_init(heap, mpo, copy)
        IN  /\ heap' = r.heap
            /\ mps' = r.mps
            /\ left_environments' = r.lenv
            /\ right_environments' = r.renv
            /\ copies' = r.copies
            /\ folds' = [folds EXCEPT ![1] = r.folds]
            /\ raised' = r.exc
            /\ pc' = IF r.exc = "none" THEN "idle" ELSE "ctor_raised"
    /\ UNCHANGED <<mpo, input, chi_max, cut, copy, callBudget, idx, inRun, num_iter,
                   itersDone, clock, calls, last, ret, passDone, sweepLog, runUpdates,
                   runSweeps, ham>>

\* The caller calls update_bond(i) itself.
CallUpdateBond ==
    /\ pc = "idle"
    /\ calls < callBudget
    /\ calls' = calls + 1
    /\ \E i \in 0..(nsites - 2) : UpdateStep(i, "idle", 0, calls + 1)

\* The caller calls sweep().
CallSweep ==
    /\ pc = "idle"
    /\ calls < callBudget
    /\ calls' = calls + 1
    /\ pc' = "sweep_lr"
    /\ idx' = 0
    /\ inRun' = FALSE
    /\ sweepLog' = <<>>
    /\ raised' = "none"
    /\ ret' = "none"
    /\ UNCHANGED <<heap, mps, mpo, input, left_environments, right_environments,
                   chi_max, cut, copy, callBudget, num_iter, itersDone, clock, last,
                   passDone, runUpdates, runSweeps, folds, copies, ham>>

\* The caller calls run(n).
CallRun ==
    /\ pc = "idle"
    /\ calls < callBudget
    /\ calls' = calls + 1
    /\ \E n \in 0..MaxIter : num_iter' = n
    /\ pc' = "run"
    /\ itersDone' = 0
    /\ inRun' = TRUE
    /\ runUpdates' = 0
    /\ runSweeps' = 0
    /\ raised' = "none"
    /\ ret' = "none"
    /\ UNCHANGED <<heap, mps, mpo, input, left_environments, right_environments,
                   chi_max, cut, copy, callBudget, idx, clock, last, passDone, sweepLog,
                   folds, copies, ham>>

\* Faulty variant: one iteration too many.
RunIterations_OneMore(n) == n + 1

\* run, line 260: range(num_iter), as the number of iterations of the loop.
RunIterations(n) == n

\* run, lines 260-261: the next iteration of the loop calls sweep; the exhausted
\* loop returns.
RunLoop ==
    /\ pc = "run"
    /\ IF itersDone < RunIterations(num_iter)
       THEN /\ pc' = "sweep_lr"
            /\ idx' = 0
            /\ sweepLog' = <<>>
            /\ runSweeps' = runSweeps + 1
            /\ ret' = "none"
            /\ UNCHANGED inRun
       ELSE /\ pc' = "idle"
            /\ inRun' = FALSE
            /\ ret' = "run"
            /\ UNCHANGED <<idx, sweepLog, runSweeps>>
    /\ UNCHANGED <<heap, mps, mpo, input, left_environments, right_environments,
                   chi_max, cut, copy, callBudget, num_iter, itersDone, raised, clock,
                   calls, last, passDone, runUpdates, folds, copies, ham>>

\* sweep, lines 171-172: one iteration of the left-to-right loop.
SweepForward ==
    /\ pc = "sweep_lr"
    /\ idx < Len(LeftToRight(nsites))
    /\ UpdateStep(LeftToRight(nsites)[idx + 1], "sweep_lr", idx + 1, calls)
    /\ UNCHANGED calls

\* sweep: the left-to-right loop is exhausted, the right-to-left loop starts.
SweepTurn ==
    /\ pc = "sweep_lr"
    /\ idx = Len(LeftToRight(nsites))
    /\ pc' = "sweep_rl"
    /\ idx' = 0
    /\ passDone' = TRUE
    /\ UNCHANGED <<heap, mps, mpo, input, left_environments, right_environments,
                   chi_max, cut, copy, callBudget, inRun, num_iter, itersDone, raised,
                   clock, calls, last, ret, sweepLog, runUpdates, runSweeps, folds,
                   copies, ham>>

\* sweep, lines 175-176: one iteration of the right-to-left loop.
SweepBackward ==
    /\ pc = "sweep_rl"
    /\ idx < Len(RightToLeft(nsites))
    /\ UpdateStep(RightToLeft(nsites)[idx + 1], "sweep_rl", idx + 1, calls)
    /\ UNCHANGED calls

\* sweep returns, to run's loop or to the caller.
SweepReturn ==
    /\ pc = "sweep_rl"
    /\ idx = Len(RightToLeft(nsites))
    /\ idx' = 0
    /\ ret' = "sweep"
    /\ IF inRun
       THEN pc' = "run" /\ itersDone' = itersDone + 1
       ELSE pc' = "idle" /\ UNCHANGED itersDone
    /\ UNCHANGED <<heap, mps, mpo, input, left_environments, right_environments,
                   chi_max, cut, copy, callBudget, inRun, num_iter, raised, clock, calls,
                   last, passDone, sweepLog, runUpdates, runSweeps, folds, copies, ham>>

-----------------------------------------------------------------------------
(* Initial states: the caller's MPS and MPO before the optimiser is built *)

TrivialSV == [id |-> 0, w |-> <<1>>, n2 |-> 1]

\* Singular values of an interior bond of the caller's MPS: unit norm; a zero
\* singular value is allowed.
InitSVs == {[id |-> 0, w |-> <<1>>, n2 |-> 1], [id |-> 0, w |-> <<1, 0>>, n2 |-> 1]}

InputMps(n, svs) ==
    {[nsites |-> n,
      singular_values |-> sv,
      tensors |-> [k \in 0..(n - 1) |->
                      [id |-> 0, dl |-> Len(sv[k].w), d |-> d, dr |-> Len(sv[k + 1].w)]]] :
        sv \in {f \in [0..n -> svs \cup {TrivialSV}] :
                    f[0] = TrivialSV /\ f[n] = TrivialSV},
        d \in PhysDims}

InputMpo(len) ==
    {[k \in 0..(len - 1) |-> [id |-> 0, vl |-> b, vr |-> b, d |-> d]] :
        b \in MpoBonds, d \in PhysDims}

HamOff == [pc |-> "off"]

InitWith(lens, svs, chis, cuts, copies_, budget) ==
    /\ \E p \in lens :
          \E m \in InputMps(p[1], svs), o \in InputMpo(p[2]) :
              /\ heap = [caller |-> m, copy |-> None]
              /\ mpo = o
              /\ input = [mps |-> m, mpo |-> o]
    /\ mps = "none"
    /\ left_environments = <<>>
    /\ right_environments = <<>>
    /\ chi_max \in chis
    /\ cut \in cuts
    /\ copy \in copies_
    /\ callBudget = budget
    /\ pc = "new"
    /\ idx = 0
    /\ inRun = FALSE
    /\ num_iter = 0
    /\ itersDone = 0
    /\ raised = "none"
    /\ clock = 0
    /\ calls = 0
    /\ last = [n |-> 0, exc |-> "none", call |-> 0, failed |-> FALSE]
    /\ ret = "none"
    /\ passDone = FALSE
    /\ sweepLog = <<>>
    /\ runUpdates = 0
    /\ runSweeps = 0
    /\ folds = <<0, 0>>
    /\ copies = 0

\* The whole interface (update_bond, sweep and run, in any order), the bond
\* dimension capped at 1.
Init ==
    /\ InitWith((1..MaxSites) \X (1..MaxSites), InitSVs, {1}, {<<0, 1>>}, BOOLEAN,
                MaxCalls)
    /\ ham = HamOff

Next ==
    \/ Construct
    \/ CallUpdateBond
    \/ CallSweep
    \/ CallRun
    \/ RunLoop
    \/ SweepForward
    \/ SweepTurn
    \/ SweepBackward
    \/ SweepReturn

Spec == Init /\ [][Next]_vars

\* The optimiser driven through sweep and run alone, on chains of up to
\* MaxSweepSites sites.
InitSweep ==
    /\ InitWith({<<n, n>> : n \in 1..MaxSweepSites}, InitSVs, {1}, {<<0, 1>>}, {TRUE},
                MaxCalls)
    /\ ham = HamOff

NextSweep ==
    \/ Construct
    \/ CallSweep
    \/ CallRun
    \/ RunLoop
    \/ SweepForward
    \/ SweepTurn
    \/ SweepBackward
    \/ SweepReturn

SpecSweep == InitSweep /\ [][NextSweep]_vars

\* One call on an optimiser, over every chi_max and cut and both copy modes.
InitSplit ==
    /\ InitWith({<<n, n>> : n \in 2..MaxSites}, InitSVs, ChiMaxs, CutSqs, BOOLEAN, 1)
    /\ ham = HamOff

SpecSplit == InitSplit /\ [][Next]_vars

-----------------------------------------------------------------------------
(* EffectiveHamiltonian on its own: built from four tensors of any virtual     *)
(* dimensions, then applied to vectors.                                        *)

Environments == [chi : {1, 2}, op : 1..MaxDim, side : {"arg"}, fold : {<<>>}]

Operators == [id : {0}, vl : 1..MaxDim, vr : 1..MaxDim, d : PhysDims]

\* The caller builds the operator: EffectiveHamiltonian(L, A, B, R).
HamConstruct ==
    /\ ham.pc = "args"
    /\ LET H == EffectiveHamiltonian(ham.L, ham.A, ham.B, ham.R)
       IN  ham' = IF H.exc = "none"
                  THEN [ham EXCEPT !.pc = "built", !.H = H]
                  ELSE [ham EXCEPT !.pc = "raised", !.exc = H.exc]
    /\ UNCHANGED <<heap, mps, mpo, input, left_environments, right_environments,
                   chi_max, cut, copy, callBudget, pc, idx, inRun, num_iter, itersDone,
                   raised, clock, calls, last, ret, passDone, sweepLog, runUpdates,
                   runSweeps, folds, copies>>

\* The caller (the eigensolver) applies the operator to a vector: _matvec.
HamMatvec ==
    /\ ham.pc \in {"built", "applied"}
    /\ ham.tried < 2
    /\ \E out \in MatvecOutcomes(ham.H) :
          ham' = IF out = "ok"
                 THEN [ham EXCEPT !.pc = "applied", !.tried = @ + 1, !.applied = @ + 1]
                 ELSE [ham EXCEPT !.pc = "raised", !.tried = @ + 1, !.exc = out]
    /\ UNCHANGED <<heap, mps, mpo, input, left_environments, right_environments,
                   chi_max, cut, copy, callBudget, pc, idx, inRun, num_iter, itersDone,
                   raised, clock, calls, last, ret, passDone, sweepLog, runUpdates,
                   runSweeps, folds, copies>>

InitH ==
    /\ InitWith({<<1, 1>>}, {TrivialSV}, {1}, {<<0, 1>>}, {TRUE}, 0)
    /\ \E L \in Environments, R \in Environments, A \in Operators, B \in Operators :
          ham = [pc |-> "args", L |-> L, A |-> A, B |-> B, R |-> R, H |-> None,
                 tried |-> 0, applied |-> 0, exc |-> "none"]

NextH == HamConstruct \/ HamMatvec

SpecH == InitH /\ [][NextH]_vars

-----------------------------------------------------------------------------
(* Properties *)

\* The optimiser exists: its construction has returned.
Built == pc \notin {"new", "ctor_raised"}

\* An update_bond has been executed; `last` describes the latest one.
Updated == last.call > 0

\* The latest update_bond ran to its end.
Completed == Updated /\ last.exc = "none"

\* C1: constructing the optimiser with an MPS and an MPO of different lengths
\* raises ValueError, and raises it first: no copy of the MPS is made, no
\* environment is created or folded, and the caller's MPS and MPO are unchanged.
C1_LengthMismatchRaisesFirst ==
    LET differ == nsites # Cardinality(DOMAIN mpo)
    IN  /\ differ => pc \in {"new", "ctor_raised"}
        /\ pc = "ctor_raised" =>
              /\ differ
              /\ raised = "ValueError"
              /\ copies = 0
              /\ heap["copy"] = None
              /\ mps = "none"
              /\ left_environments = <<>>
              /\ right_environments = <<>>
              /\ folds = <<0, 0>>
              /\ heap["caller"] = input.mps
              /\ mpo = input.mpo

C1_Witness == pc = "ctor_raised" /\ nsites = 2 /\ Cardinality(DOMAIN mpo) = 3

\* C4: in copying mode the caller's MPS stays what it was through construction
\* and every update, the optimiser writing to its own copy; in place (copy=False)
\* the optimiser works on the caller's object, which its updates rewrite.
C4_CallerMpsUntouchedUnlessInPlace ==
    Built =>
        IF copy
        THEN /\ mps = "copy"
             /\ heap["caller"] = input.mps
             /\ (clock = 0 => heap["copy"] = input.mps)
             /\ (clock > 0 => heap["copy"] # input.mps)
        ELSE /\ mps = "caller"
             /\ heap["copy"] = None
             /\ (clock > 0 => heap["caller"] # input.mps)

C4_Witness ==
    /\ Built /\ copy /\ Completed /\ ret = "run" /\ num_iter = 2
    /\ heap["caller"] = input.mps /\ heap["copy"] # input.mps

\* C7: an exception raised inside update_bond reaches the caller of update_bond,
\* sweep and run: within the call in which an update failed, control is back
\* with the caller, the exception is what the call raised, no loop of sweep or
\* run is still running (so no further update_bond is executed and the bond is
\* not tried again), and the call has not returned normally.
C7_FailureSurfaced ==
    (Updated /\ last.exc # "none" /\ last.call = calls) =>
        /\ pc = "idle"
        /\ ~inRun
        /\ raised = last.exc
        /\ ret = "none"
        /\ sweepLog = <<>> \/ pc \notin {"sweep_lr", "sweep_rl"}

\* A run of two iterations stopped by the eigensolver in the middle of its
\* second sweep, after the first sweep had completed.
C7_Witness ==
    /\ raised = "ArpackNoConvergence" /\ last.exc = raised /\ last.call = calls
    /\ pc = "idle" /\ runSweeps = 2 /\ num_iter = 2 /\ itersDone = 1
    /\ sweepLog # <<>> /\ Len(sweepLog) < 2 * (nsites - 1)

\* The environments update_bond(0) reads on a chain of two sites are the two
\* boundary environments, which no fold produced.
ReadsBoundaries ==
    /\ last.read.L.fold = <<>> /\ last.read.L.side = "left"
    /\ last.read.R.fold = <<>> /\ last.read.R.side = "right"

\* C9 as stated: on a chain of two sites update_bond(0) reads only the two
\* boundary environments and no fold update is called.
C9_NoFoldCalls ==
    (nsites = 2 /\ Completed) => (ReadsBoundaries /\ last.folds = 0 /\ folds = <<0, 0>>)

\* C9 amended: on a chain of two sites every update_bond(0) builds its effective
\* Hamiltonian from the two boundary environments alone, but fold updates are
\* called: one update_right_environment(1) by the constructor and, by every
\* update_bond(0) that runs to its end, update_left_environment(0) and
\* update_right_environment(1), whose results no update_bond reads.
C9_ReadsBoundariesButFolds ==
    (nsites = 2 /\ Built) =>
        /\ folds[1] = 1
        /\ Updated => ReadsBoundaries
        /\ Completed => last.folds = 2
        /\ (Updated /\ ~Completed) => last.folds = 0
        /\ folds[2] % 2 = 0
        /\ Completed => folds[2] >= 2

C9_Witness == nsites = 2 /\ Completed /\ ret = "sweep" /\ folds = <<1, 4>>

\* What one step of update_bond(i) on MPS m, leaving MPS m2, may change.
FrameOfUpdate(i, m, m2) ==
    LET n == nsites
    IN  /\ i \in 0..(n - 2)
        /\ DOMAIN m2.tensors = 0..(n - 1)
        /\ DOMAIN m2.singular_values = 0..n
        /\ DOMAIN left_environments' = 0..(n - 1)
        /\ DOMAIN right_environments' = 0..(n - 1)
        /\ \A k \in (0..(n - 1)) \ {i, i + 1} : m2.tensors[k] = m.tensors[k]
        /\ \A b \in (0..n) \ {i + 1} : m2.singular_values[b] = m.singular_values[b]
        /\ \A k \in (0..(n - 1)) \ {i + 1} : left_environments'[k] = left_environments[k]
        /\ \A k \in (0..(n - 1)) \ {i} : right_environments'[k] = right_environments[k]
        /\ mpo' = mpo
        /\ mps' = mps
        /\ \A o \in {"caller", "copy"} \ {mps} : heap'[o] = heap[o]
        /\ last'.exc = "none" =>
              /\ m2.tensors[i] # m.tensors[i]
              /\ m2.tensors[i + 1] # m.tensors[i + 1]
              /\ m2.singular_values[i + 1] # m.singular_values[i + 1]
              /\ left_environments'[i + 1] # left_environments[i + 1]
              /\ right_environments'[i] # right_environments[i]

\* The boundary environments, the boundary singular values and the MPO are what
\* the constructor was given or seeded.
BoundariesKept ==
    Built =>
        LET n == nsites
            m == heap[mps]
        IN  /\ left_environments[0].fold = <<>> /\ left_environments[0].side = "left"
            /\ right_environments[n - 1].fold = <<>>
            /\ right_environments[n - 1].side = "right"
            /\ m.singular_values[0] = input.mps.singular_values[0]
            /\ m.singular_values[n] = input.mps.singular_values[n]
            /\ mpo = input.mpo

\* C10: update_bond(i), 0 <= i <= N-2, writes site tensors i and i+1, the
\* singular values of bond i+1, left_environments[i+1] and right_environments[i]
\* (all of them when it runs to its end) and nothing else; so every written index
\* is in range, the boundary environments and boundary singular values are never
\* overwritten and the MPO is never modified.
C10_UpdateBondFrame ==
    /\ []BoundariesKept
    /\ [][last'.n # last.n => FrameOfUpdate(last'.i, heap[mps], heap'[mps'])]_vars

C10_Witness ==
    /\ nsites = 3 /\ Completed /\ last.i = 0 /\ pc = "idle" /\ ret = "sweep"
    /\ heap[mps].tensors[2].id > 0

\* The bonds one sweep of a chain of n sites is to update, in order:
\* 0, 1, ..., n-2, n-2, ..., 1, 0.
ExpectedOrder(n) ==
    [k \in 1..(2 * (n - 1)) |-> IF k <= n - 1 THEN k - 1 ELSE 2 * (n - 1) - k]

InSweep == pc \in {"sweep_lr", "sweep_rl"}

\* C2: one sweep() of a chain of N sites calls update_bond for the bonds
\* 0, 1, .., N-2 and then N-2, .., 1, 0, in that order, and makes no other
\* update_bond call: the calls made so far are always a prefix of that list, a
\* sweep that returns has made all of them (every bond exactly twice, bond N-2
\* twice in a row), and none for N = 1.
C2_SweepOrder ==
    Built =>
        /\ Len(sweepLog) <= 2 * (nsites - 1)
        /\ sweepLog = SubSeq(ExpectedOrder(nsites), 1, Len(sweepLog))
        /\ ret = "sweep" =>
              /\ sweepLog = ExpectedOrder(nsites)
              /\ \A b \in 0..(nsites - 2) :
                    Cardinality({k \in DOMAIN sweepLog : sweepLog[k] = b}) = 2
        /\ nsites = 1 => sweepLog = <<>>

C2_Witness == ret = "sweep" /\ nsites = 4 /\ sweepLog = <<0, 1, 2, 2, 1, 0>>

\* C3: run(num_iter) calls sweep() exactly num_iter times and returns; a run in
\* which no bond update failed has made exactly 2*(N-1)*num_iter bond updates;
\* no run makes more than num_iter sweeps; run(0) makes no bond update.
C3_RunCount ==
    /\ ret = "run" =>
          /\ runSweeps = num_iter
          /\ itersDone = num_iter
          /\ runUpdates = 2 * (nsites - 1) * num_iter
          /\ pc = "idle" /\ ~inRun /\ raised = "none"
    /\ inRun =>
          /\ runSweeps <= num_iter
          /\ itersDone <= runSweeps
          /\ runUpdates <= 2 * (nsites - 1) * runSweeps
          /\ num_iter = 0 => runUpdates = 0

C3_Witness == ret = "run" /\ num_iter = 2 /\ nsites = 3 /\ runUpdates = 8

\* The fold of the current tensors and singular values of sites 0..i-1.
CurrentLeftFold(m, i) ==
    [k \in 1..i |-> <<k - 1, m.tensors[k - 1].id, m.singular_values[k - 1].id,
                      mpo[k - 1].id>>]

\* The fold of the current tensors and singular values of sites N-1 down to j+1.
CurrentRightFold(m, j) ==
    [k \in 1..(m.nsites - 1 - j) |->
        LET s == m.nsites - k
        IN  <<s, m.tensors[s].id, m.singular_values[s + 1].id, mpo[s].id>>]

\* The environments update_bond(i) is about to read are set and summarise the
\* current sites 0..i-1 and i+2..N-1.
EnvironmentsUpToDate(i) ==
    LET e == ReadEnvironments(left_environments, right_environments, i)
    IN  /\ e.L # None /\ e.R # None
        /\ e.L.side = "left" /\ e.R.side = "right"
        /\ e.L.fold = CurrentLeftFold(heap[mps], i)
        /\ e.R.fold = CurrentRightFold(heap[mps], i + 1)

\* The bond the running sweep updates next; -1 when there is none.
NextBond ==
    IF pc = "sweep_lr" /\ idx < Len(LeftToRight(nsites)) THEN LeftToRight(nsites)[idx + 1]
    ELSE IF pc = "sweep_rl" /\ idx < Len(RightToLeft(nsites))
    THEN RightToLeft(nsites)[idx + 1]
    ELSE -1

ValidSingularValues(sv) ==
    /\ Len(sv.w) >= 1
    /\ Len(sv.w) <= chi_max
    /\ \A k \in DOMAIN sv.w : sv.w[k] >= 0
    /\ \A k \in 1..(Len(sv.w) - 1) : sv.w[k] >= sv.w[k + 1]
    /\ sv.n2 > 0
    /\ SumSq(sv.w) = sv.n2

Incompatible ==
    \/ ham.L.op # ham.A.vl
    \/ ham.A.vr # ham.B.vl
    \/ ham.B.vr # ham.R.op

\* ... and no size of a differing pair is 1.
HardIncompatible ==
    \/ ham.L.op # ham.A.vl /\ ham.L.op # 1 /\ ham.A.vl # 1
    \/ ham.A.vr # ham.B.vl /\ ham.A.vr # 1 /\ ham.B.vl # 1
    \/ ham.B.vr # ham.R.op /\ ham.B.vr # 1 /\ ham.R.op # 1

\* C6 as stated: building an EffectiveHamiltonian from tensors of incompatible
\* virtual dimensions fails at construction, before the operator is applied.
C6_FailsAtConstruction ==
    (ham.pc \in {"built", "applied", "raised"} /\ Incompatible) =>
        (ham.pc = "raised" /\ ham.tried = 0)

\* C6 amended: the constructor compares no virtual dimensions and builds the
\* operator from incompatible tensors as from compatible ones; the mismatch
\* surfaces only when the operator is applied to a vector, as the ValueError of
\* the contraction (always, when neither of the two sizes is 1).
C6_FailsWhenApplied ==
    ham.pc \in {"built", "applied", "raised"} =>
        /\ ham.tried = 0 =>
              /\ ham.pc = "built"
              /\ ham.H.x_shape = <<ham.L.chi, ham.A.d, ham.B.d, ham.R.chi>>
        /\ ham.pc = "raised" =>
              /\ ham.tried >= 1
              /\ Incompatible
              /\ ham.exc = "ValueError"
        /\ HardIncompatible => ham.applied = 0
        /\ (HardIncompatible /\ ham.tried >= 1) => ham.pc = "raised"
        /\ ~Incompatible => (ham.pc # "raised" /\ ham.applied = ham.tried)

C6_Witness ==
    /\ ham.pc = "raised" /\ ham.tried = 1 /\ ham.applied = 0 /\ HardIncompatible
    /\ ham.L.op = ham.A.vl /\ ham.B.vr = ham.R.op

====
